---- MODULE Spec2Model ----
(***************************************************************************)
(* Model of the tick ingestion pipeline (data_ingestor.py) and of the two  *)
(* analytics computations (analytics_engine.py, app.py).                   *)
(***************************************************************************)
EXTENDS Integers, Sequences, FiniteSets, TLC

VARIABLES
    pc,         \* per symbol: position of stream_symbol
    timer,      \* per symbol: time units left of asyncio.sleep(5)
    inbox,      \* per symbol: frames buffered on the open websocket
    hist,       \* per symbol: every frame the feed has sent (history)
    committed,  \* ticks table: rows made durable by conn.commit()
    pending,    \* rows inserted on the shared connection, not yet committed
    dbFailed,   \* history: some execute()/commit() has raised
    cancelled,  \* KeyboardInterrupt delivered to asyncio.run(main())
    dbOpen,     \* FALSE once conn.close() has run
    ticks,      \* analytics_engine: the DataFrame read from the ticks table
    window,     \* analytics_engine: the rolling window
    analytics,  \* analytics_engine: the DataFrame compute_analytics returned
    df1,        \* app: resampled price series of symbol 1, by bucket
    df2,        \* app: resampled price series of symbol 2, by bucket
    appWindow,  \* app: the rolling window of the sidebar
    live        \* app: what compute_analytics returned on the last rerun

vars == <<pc, timer, inbox, hist, committed, pending, dbFailed,
          cancelled, dbOpen, ticks, window, analytics, df1, df2, appWindow, live>>

-----------------------------------------------------------------------------
(* Bounds of the model *)

MaxMsgs == 2

MaxInbox == 2

MaxTicks == 4

MaxBuckets == 3

-----------------------------------------------------------------------------
(* data_ingestor.py: constants *)

SYMBOLS == {"btcusdt", "ethusdt"}

BACKOFF == 5

IST == "+05:30"

Absent == "absent"

(* Raw frames the feed may send.  wf = FALSE is text that is not JSON; a    *)
(* time field is <<>> when the key is missing and <<ms>> when present.     *)
Frame(wf, e, T, E, p, q) == [wf |-> wf, e |-> e, T |-> T, E |-> E, p |-> p, q |-> q]

Garbage   == Frame(FALSE, Absent, <<>>, <<>>, Absent, Absent)
NonTrade  == Frame(TRUE, "depthUpdate", <<>>, <<1500>>, Absent, Absent)
GoodTrade == Frame(TRUE, "trade", <<1000>>, <<1001>>, "100", "2")
NoTime    == Frame(TRUE, "trade", <<>>, <<>>, "100", "2")
NoPrice   == Frame(TRUE, "trade", <<1000>>, <<1001>>, Absent, "2")
InfPrice  == Frame(TRUE, "trade", <<1000>>, <<1001>>, "inf", "2")

Frames == {Garbage, NonTrade, GoodTrade, NoTime, NoPrice, InfPrice}

-----------------------------------------------------------------------------
(* Pure helpers of stream_symbol *)

Raise == [err |-> TRUE]

Ok(v) == [err |-> FALSE, val |-> v]

(* json.loads(message): raises on text that is not JSON *)
JsonLoads(m) == IF m.wf THEN Ok(m) ELSE Raise

(* A Python float: a finite number, an infinity or a NaN *)
Num(n) == [kind |-> "num", v |-> n]

Infinity == [kind |-> "inf", v |-> 0]

NaN == [kind |-> "nan", v |-> 0]

(* float(s) of Python: accepts decimal literals and also "inf" and "nan" *)
PyFloat(s) ==
    CASE s = "100" -> Ok(Num(100))
      [] s = "50"  -> Ok(Num(50))
      [] s = "2"   -> Ok(Num(2))
      [] s = "1"   -> Ok(Num(1))
      [] s = "inf" -> Ok(Infinity)
      [] s = "nan" -> Ok(NaN)
      [] OTHER     -> Raise

(* datetime.fromtimestamp(ms / 1000, tz=IST).isoformat() *)
IsoFormat(ms) == [sec |-> ms \div 1000, frac |-> ms % 1000, tz |-> IST]

(* normalize(msg): msg.get("T", msg.get("E")) / 1000, float(msg["p"]),     *)
(* float(msg["q"]); a missing key or an unparseable number raises.         *)
normalize(msg) ==
    LET t == IF msg.T # <<>> THEN msg.T ELSE msg.E
    IN  IF t = <<>> THEN Raise
        ELSE IF msg.p = Absent \/ PyFloat(msg.p).err THEN Raise
        ELSE IF msg.q = Absent \/ PyFloat(msg.q).err THEN Raise
        ELSE Ok([ts    |-> IsoFormat(t[1]),
                 price |-> PyFloat(msg.p).val,
                 size  |-> PyFloat(msg.q).val])

(* A REAL column bound to a float: SQLite stores a NaN as NULL *)
Null == [kind |-> "null", v |-> 0]

BindReal(x) == IF x.kind = "nan" THEN Null ELSE x

(* The row of the INSERT of save_tick; src and abandoned are history      *)
(* fields: the frame the row came from, and whether its own commit raised. *)
Row(symbol, tick, src) ==
    [ts |-> tick.ts, symbol |-> symbol, price |-> BindReal(tick.price),
     size |-> BindReal(tick.size), src |-> src, abandoned |-> FALSE]

(* cursor.execute("INSERT ..."): the row joins the open transaction *)
(* Variant: the new row goes before the rows already in the transaction *)
InsertRowFront(p, row) == <<row>> \o p

InsertRow(p, row) == Append(p, row)

(* What the connector does with one frame, before any write:              *)
(* "skip" (not a trade), "raise" (json.loads or normalize raised), or     *)
(* "save" with the tick to persist.                                        *)
Handle(m) ==
    LET data == JsonLoads(m)
    IN  IF data.err THEN [do |-> "raise"]
        ELSE IF data.val.e # "trade" THEN [do |-> "skip"]
        ELSE IF normalize(data.val).err THEN [do |-> "raise"]
        ELSE [do |-> "save", tick |-> normalize(data.val).val]

-----------------------------------------------------------------------------
(* Floating-point results of the rolling statistics.  A finite value is    *)
(* kept exactly, as sgn * sqrt(num / den); a NaN is its own value.         *)

Stat(sgn, num, den) == [kind |-> "num", sgn |-> sgn, num |-> num, den |-> den]

Zero == Stat(0, 0, 1)

StatNaN == [kind |-> "nan", sgn |-> 0, num |-> 0, den |-> 1]

Sign(n) == IF n > 0 THEN 1 ELSE IF n < 0 THEN -1 ELSE 0

(* Sum of xs[lo..hi] *)
RECURSIVE SumRange(_, _, _)
SumRange(xs, lo, hi) == IF lo > hi THEN 0 ELSE xs[hi] + SumRange(xs, lo, hi - 1)

Mul(xs, ys) == [i \in DOMAIN xs |-> xs[i] * ys[i]]

(* (x - x.rolling(w).mean()) / x.rolling(w).std() at row i.  rolling(w)    *)
(* has min_periods = w, so rows before the window is full are NaN; std is  *)
(* the sample deviation (ddof = 1): NaN for w = 1, and 0 / 0 = NaN when    *)
(* the window is constant.                                                 *)
RollingZ(xs, i, w) ==
    IF i < w THEN StatNaN
    ELSE LET S == SumRange(xs, i - w + 1, i)
             Q == SumRange(Mul(xs, xs), i - w + 1, i)
             dev == w * xs[i] - S
             var == w * Q - S * S
         IN  IF w < 2 \/ var = 0 THEN StatNaN
             ELSE IF dev = 0 THEN Zero
             ELSE Stat(Sign(dev), dev * dev * (w - 1), w * var)

(* x.rolling(w).corr(y) at row i: Pearson correlation of the window, NaN   *)
(* before the window is full and when either side has no variance.         *)
RollingCorr(xs, ys, i, w) ==
    IF i < w THEN StatNaN
    ELSE LET Sx == SumRange(xs, i - w + 1, i)
             Sy == SumRange(ys, i - w + 1, i)
             cov == w * SumRange(Mul(xs, ys), i - w + 1, i) - Sx * Sy
             vx == w * SumRange(Mul(xs, xs), i - w + 1, i) - Sx * Sx
             vy == w * SumRange(Mul(ys, ys), i - w + 1, i) - Sy * Sy
         IN  IF vx = 0 \/ vy = 0 THEN StatNaN
             ELSE IF cov = 0 THEN Zero
             ELSE Stat(Sign(cov), cov * cov, vx * vy)

(* The elements of a finite set of integers, ascending *)
RECURSIVE Ascending(_)
Ascending(S) ==
    IF S = {} THEN <<>>
    ELSE LET m == CHOOSE x \in S : \A y \in S : x <= y
         IN  <<m>> \o Ascending(S \ {m})

SetMax(S) == CHOOSE x \in S : \A y \in S : y <= x

SetMin(S) == CHOOSE x \in S : \A y \in S : x <= y

-----------------------------------------------------------------------------
(* analytics_engine.py.  A row of the input DataFrame has ts (<<>> when    *)
(* to_datetime cannot parse it, else <<t>> with t in half seconds), symbol *)
(* and price (a number or NaN).                                            *)

NaT == <<>>

(* str.lower() *)
Lower(sym) ==
    CASE sym = "BTCUSDT" -> "btcusdt"
      [] sym = "ETHUSDT" -> "ethusdt"
      [] OTHER -> sym

(* dropna(subset=["ts", "price"]) keeps a row *)
HasTsAndPrice(t) == t.ts # NaT /\ t.price.kind # "nan"

(* sort_index(): each row goes after the rows that are not later than it *)
RECURSIVE InsertByTs(_, _)
InsertByTs(sorted, x) ==
    IF sorted = <<>> THEN <<x>>
    ELSE IF Head(sorted).ts[1] <= x.ts[1]
         THEN <<Head(sorted)>> \o InsertByTs(Tail(sorted), x)
         ELSE <<x>> \o sorted

RECURSIVE SortByTs(_)
SortByTs(rows) ==
    IF rows = <<>> THEN <<>>
    ELSE InsertByTs(SortByTs(SubSeq(rows, 1, Len(rows) - 1)), rows[Len(rows)])

(* The one-second bucket of a timestamp given in half seconds *)
Bucket(t) == t \div 2

(* Variant: .first() in place of .last() *)
FirstOf(rows, idx) == rows[SetMin(idx)].price

(* What .last() gives for the rows of one bucket *)
LastOf(rows, idx) == rows[SetMax(idx)].price

(* resample("1S").last() of the sorted rows of one symbol: one entry per   *)
(* second from the first to the last bucket, NaN where a bucket is empty.  *)
Resample(rows) ==
    LET bs == {Bucket(rows[i].ts[1]) : i \in DOMAIN rows}
    IN  [b \in SetMin(bs)..SetMax(bs) |->
            LET idx == {i \in DOMAIN rows : Bucket(rows[i].ts[1]) = b}
            IN  IF idx = {} THEN NaN ELSE LastOf(rows, idx)]

(* pd.concat([a, b], axis=1).dropna(): the buckets where both have a value *)
Aligned(a, b) ==
    Ascending({k \in DOMAIN a \cap DOMAIN b : a[k].kind = "num" /\ b[k].kind = "num"})

(* merged["spread"] *)
Spread(pa, pb) == pa - pb

(* The branch "len(merged) >= window" *)
(* Variant: the rolling branch taken whatever the row count *)
UseRollingAlways(n, w) == TRUE

UseRolling(n, w) == n >= w

SymbolRows(rows, name) == SelectSeq(rows, LAMBDA t : Lower(t.symbol) = name)

compute_analytics(df, w) ==
    IF df = <<>> THEN <<>>
    ELSE
    LET clean == SortByTs(SelectSeq(df, HasTsAndPrice))
        df_btc == SymbolRows(clean, "btcusdt")
        df_eth == SymbolRows(clean, "ethusdt")
    IN  IF df_btc = <<>> \/ df_eth = <<>> THEN <<>>
        ELSE
        LET btc_1s == Resample(df_btc)
            eth_1s == Resample(df_eth)
            idx == Aligned(btc_1s, eth_1s)
            n == Len(idx)
            pb == [i \in 1..n |-> btc_1s[idx[i]].v]
            pe == [i \in 1..n |-> eth_1s[idx[i]].v]
            sp == [i \in 1..n |-> Spread(pb[i], pe[i])]
            merged == [i \in 1..n |->
                [time |-> idx[i], price_btc |-> pb[i], price_eth |-> pe[i],
                 spread |-> sp[i],
                 zscore |-> IF UseRolling(n, w) THEN RollingZ(sp, i, w) ELSE Zero,
                 rolling_corr |-> IF UseRolling(n, w) THEN RollingCorr(pb, pe, i, w)
                                  ELSE Zero]]
        IN  \* merged.dropna()
            SelectSeq(merged, LAMBDA r : r.zscore.kind # "nan" /\ r.rolling_corr.kind # "nan")

-----------------------------------------------------------------------------
(* app.py: compute_analytics(df1, df2, window) of the dashboard.  df1 and  *)
(* df2 are price series by bucket; NaN marks a bucket a series lacks.      *)

(* model.params["p2"] of OLS(p1, add_constant(p2)): the slope num / den.   *)
(* add_constant adds no column when p2 is already constant, and the fit    *)
(* is then through the origin.                                             *)
HedgeRatio(p1, p2) ==
    LET n == Len(p1)
        Sx == SumRange(p2, 1, n)
        Sy == SumRange(p1, 1, n)
        Sxy == SumRange(Mul(p1, p2), 1, n)
        Sxx == SumRange(Mul(p2, p2), 1, n)
    IN  IF \A i \in 1..n : p2[i] = p2[1]
        THEN [num |-> Sxy, den |-> Sxx]
        ELSE [num |-> n * Sxy - Sx * Sy, den |-> n * Sxx - Sx * Sx]

(* Series.fillna(0) *)
FillNa(x) == IF x.kind = "nan" THEN Zero ELSE x

app_compute_analytics(a, b, w) ==
    LET idx == Aligned(a, b)
        n == Len(idx)
    IN  IF n = 0 THEN [none |-> TRUE, rows |-> <<>>]
        ELSE
        LET p1 == [i \in 1..n |-> a[idx[i]].v]
            p2 == [i \in 1..n |-> b[idx[i]].v]
            hedge_ratio == HedgeRatio(p1, p2)
            \* spread = p1 - hedge_ratio * p2, kept as spread * den
            sp == [i \in 1..n |-> hedge_ratio.den * p1[i] - hedge_ratio.num * p2[i]]
        IN  [none |-> FALSE,
             rows |-> [i \in 1..n |->
                [time |-> idx[i], p1 |-> p1[i], p2 |-> p2[i],
                 spread |-> [num |-> sp[i], den |-> hedge_ratio.den],
                 zscore |-> FillNa(RollingZ(sp, i, w)),
                 rolling_corr |-> RollingCorr(p1, p2, i, w)]]]

-----------------------------------------------------------------------------
(* Inputs of the analytics computations *)

Prices == {50, 100}

SeriesPrices == {1, 2, 3}

Windows == {1, 2, 3}

(* Rows of the ticks table.  Timestamps are in half seconds: 0 and 1 share *)
(* a bucket, 2 is in the next one.  The last two rows are the ones dropna  *)
(* removes: an unparseable timestamp, a missing price.                     *)
TickInputs ==
    [ts : {<<0>>, <<1>>, <<2>>}, symbol : {"BTCUSDT"}, price : {Num(p) : p \in Prices}]
    \cup [ts : {<<0>>, <<2>>}, symbol : {"ethusdt"}, price : {Num(p) : p \in Prices}]
    \cup {[ts |-> NaT, symbol |-> "btcusdt", price |-> Num(100)],
          [ts |-> <<0>>, symbol |-> "ethusdt", price |-> NaN]}

SeriesInputs == {NaN} \cup {Num(p) : p \in SeriesPrices}

EngineInit ==
    /\ ticks = <<>>
    /\ window = 1
    /\ analytics = <<>>

AppInit ==
    /\ df1 = <<>>
    /\ df2 = <<>>
    /\ appWindow = 1
    /\ live = [none |-> TRUE, rows |-> <<>>]

AnalyticsIdle == UNCHANGED <<ticks, window, analytics, df1, df2, appWindow, live>>

IngestIdle ==
    UNCHANGED <<pc, timer, inbox, hist, committed, pending, dbFailed, cancelled, dbOpen>>

(* One more row is in the ticks table and analytics_engine is run on it *)
RunEngine(t) ==
    /\ Len(ticks) < MaxTicks
    /\ ticks' = Append(ticks, t)
    /\ analytics' = compute_analytics(ticks', window)
    /\ UNCHANGED <<window, df1, df2, appWindow, live>>
    /\ IngestIdle

(* One rerun of the dashboard script: the resampled series have one more   *)
(* bucket (a, b: what each symbol has in it) and the sidebar window is w.  *)
Rerun(a, b, w) ==
    /\ Len(df1) < MaxBuckets
    /\ df1' = Append(df1, a)
    /\ df2' = Append(df2, b)
    /\ appWindow' = w
    /\ live' = app_compute_analytics(df1', df2', w)
    /\ UNCHANGED <<ticks, window, analytics>>
    /\ IngestIdle

-----------------------------------------------------------------------------
(* Scheduling: asyncio.gather starts every stream_symbol as its own task;  *)
(* a task suspended in recv or sleep leaves the event loop to the others.  *)
(* Variant: the connectors awaited one after the other, in list order *)
RunnableSequential(s) == s = "btcusdt" \/ pc["btcusdt"] = "stopped"

Runnable(s) == TRUE

(* Where stream_symbol goes when CancelledError is thrown into it: neither *)
(* except clause catches it (it is no Exception), so the task ends.        *)
(* Variant: a handler that also catches the cancellation *)
OnCancelSwallowed(s) == "backoff"

OnCancel(s) == "stopped"

-----------------------------------------------------------------------------
IngestInit ==
    /\ pc = [s \in SYMBOLS |-> "connecting"]
    /\ timer = [s \in SYMBOLS |-> 0]
    /\ inbox = [s \in SYMBOLS |-> <<>>]
    /\ hist = [s \in SYMBOLS |-> <<>>]
    /\ committed = <<>>
    /\ pending = <<>>
    /\ dbFailed = FALSE
    /\ cancelled = FALSE
    /\ dbOpen = TRUE

(* Entering either except clause: the async with has closed the socket     *)
(* (frames still buffered are gone) and asyncio.sleep(5) starts.           *)
EnterBackoff(s) ==
    /\ pc' = [pc EXCEPT ![s] = "backoff"]
    /\ timer' = [timer EXCEPT ![s] = BACKOFF]
    /\ inbox' = [inbox EXCEPT ![s] = <<>>]

(* websockets.connect(url) succeeds *)
Connect(s) ==
    /\ ~cancelled /\ Runnable(s)
    /\ pc[s] = "connecting"
    /\ pc' = [pc EXCEPT ![s] = "streaming"]
    /\ inbox' = [inbox EXCEPT ![s] = <<>>]
    /\ timer' = [timer EXCEPT ![s] = 0]
    /\ UNCHANGED <<hist, committed, pending, dbFailed, cancelled, dbOpen>>
    /\ AnalyticsIdle

(* websockets.connect(url) raises (refused, handshake failure, ...) *)
ConnectFail(s) ==
    /\ ~cancelled /\ Runnable(s)
    /\ pc[s] = "connecting"
    /\ EnterBackoff(s)
    /\ UNCHANGED <<hist, committed, pending, dbFailed, cancelled, dbOpen>>
    /\ AnalyticsIdle

(* Frames sent so far, over all symbols *)
RECURSIVE SumLen(_, _)
SumLen(h, S) ==
    IF S = {} THEN 0
    ELSE LET s == CHOOSE x \in S : TRUE IN Len(h[s]) + SumLen(h, S \ {s})

TotalSent == SumLen(hist, SYMBOLS)

(* The feed sends one frame on the open connection *)
Deliver(s, m) ==
    /\ pc[s] = "streaming"
    /\ TotalSent < MaxMsgs
    /\ Len(inbox[s]) < MaxInbox
    /\ hist' = [hist EXCEPT ![s] = Append(@, m)]
    /\ inbox' = [inbox EXCEPT ![s] = Append(@, [id |-> Len(hist[s]) + 1, msg |-> m])]
    /\ UNCHANGED <<pc, timer, committed, pending, dbFailed, cancelled, dbOpen>>
    /\ AnalyticsIdle

(* One iteration of "async for message in ws" for a frame that is skipped  *)
(* or that makes json.loads / normalize raise.                             *)
ProcessNoWrite(s) ==
    /\ ~cancelled /\ Runnable(s)
    /\ pc[s] = "streaming"
    /\ inbox[s] # <<>>
    /\ LET h == Handle(Head(inbox[s]).msg)
       IN  \/ /\ h.do = "skip"
              /\ inbox' = [inbox EXCEPT ![s] = Tail(@)]
              /\ UNCHANGED <<pc, timer>>
           \/ /\ h.do = "raise"
              /\ EnterBackoff(s)
    /\ UNCHANGED <<hist, committed, pending, dbFailed, cancelled, dbOpen>>
    /\ AnalyticsIdle

(* One iteration for a trade frame: normalize, then save_tick.  save_tick  *)
(* has no suspension point, so INSERT and commit run in one step.  Either  *)
(* call may raise (database locked by a reader, disk full): outcome.       *)
ProcessSave(s, outcome) ==
    /\ ~cancelled /\ Runnable(s)
    /\ pc[s] = "streaming"
    /\ inbox[s] # <<>>
    /\ LET f == Head(inbox[s])
           h == Handle(f.msg)
       IN  /\ h.do = "save"
           /\ \/ /\ outcome = "ok"
                 /\ committed' = committed \o InsertRow(pending, Row(s, h.tick, f.id))
                 /\ pending' = <<>>
                 /\ inbox' = [inbox EXCEPT ![s] = Tail(@)]
                 /\ UNCHANGED <<pc, timer, dbFailed>>
              \/ /\ outcome = "execute_raises"
                 /\ EnterBackoff(s)
                 /\ dbFailed' = TRUE
                 /\ UNCHANGED <<committed, pending>>
              \/ /\ outcome = "commit_raises"
                 /\ EnterBackoff(s)
                 /\ dbFailed' = TRUE
                 /\ pending' = InsertRow(pending,
                                  [Row(s, h.tick, f.id) EXCEPT !.abandoned = TRUE])
                 /\ UNCHANGED committed
    /\ UNCHANGED <<hist, cancelled, dbOpen>>
    /\ AnalyticsIdle

(* The connection drops: recv raises ConnectionClosed / ConnectionResetError *)
ConnectionLost(s) ==
    /\ ~cancelled /\ Runnable(s)
    /\ pc[s] = "streaming"
    /\ EnterBackoff(s)
    /\ UNCHANGED <<hist, committed, pending, dbFailed, cancelled, dbOpen>>
    /\ AnalyticsIdle

(* The server closes the connection normally: "async for" ends without an  *)
(* exception, the async with exits and "while True" connects again.        *)
StreamEnds(s) ==
    /\ ~cancelled /\ Runnable(s)
    /\ pc[s] = "streaming"
    /\ inbox[s] = <<>>
    /\ pc' = [pc EXCEPT ![s] = "connecting"]
    /\ UNCHANGED <<timer, inbox, hist, committed, pending, dbFailed, cancelled, dbOpen>>
    /\ AnalyticsIdle

(* One time unit of asyncio.sleep(5) passes *)
BackoffTick(s) ==
    /\ ~cancelled /\ Runnable(s)
    /\ pc[s] = "backoff"
    /\ timer[s] > 0
    /\ timer' = [timer EXCEPT ![s] = @ - 1]
    /\ UNCHANGED <<pc, inbox, hist, committed, pending, dbFailed, cancelled, dbOpen>>
    /\ AnalyticsIdle

(* asyncio.sleep(5) returns: back to the top of "while True" *)
Retry(s) ==
    /\ ~cancelled /\ Runnable(s)
    /\ pc[s] = "backoff"
    /\ timer[s] = 0
    /\ pc' = [pc EXCEPT ![s] = "connecting"]
    /\ UNCHANGED <<timer, inbox, hist, committed, pending, dbFailed, cancelled, dbOpen>>
    /\ AnalyticsIdle

(* KeyboardInterrupt: asyncio.run cancels main, gather cancels every task *)
Cancel ==
    /\ ~cancelled
    /\ cancelled' = TRUE
    /\ UNCHANGED <<pc, timer, inbox, hist, committed, pending, dbFailed, dbOpen>>
    /\ AnalyticsIdle

(* CancelledError is thrown into the task at the await it is suspended in  *)
Stop(s) ==
    /\ cancelled
    /\ pc[s] # "stopped"
    /\ pc' = [pc EXCEPT ![s] = OnCancel(s)]
    /\ inbox' = [inbox EXCEPT ![s] = <<>>]
    /\ timer' = [timer EXCEPT ![s] = 0]
    /\ UNCHANGED <<hist, committed, pending, dbFailed, cancelled, dbOpen>>
    /\ AnalyticsIdle

(* except KeyboardInterrupt: conn.close() discards the open transaction *)
Shutdown ==
    /\ cancelled /\ dbOpen
    /\ \A s \in SYMBOLS : pc[s] = "stopped"
    /\ dbOpen' = FALSE
    /\ pending' = <<>>
    /\ UNCHANGED <<pc, timer, inbox, hist, committed, dbFailed, cancelled>>
    /\ AnalyticsIdle

Next ==
    \/ \E s \in SYMBOLS : Connect(s)
    \/ \E s \in SYMBOLS : ConnectFail(s)
    \/ \E s \in SYMBOLS, m \in Frames : Deliver(s, m)
    \/ \E s \in SYMBOLS : ProcessNoWrite(s)
    \/ \E s \in SYMBOLS, o \in {"ok", "execute_raises", "commit_raises"} : ProcessSave(s, o)
    \/ \E s \in SYMBOLS : ConnectionLost(s)
    \/ \E s \in SYMBOLS : StreamEnds(s)
    \/ \E s \in SYMBOLS : BackoffTick(s)
    \/ \E s \in SYMBOLS : Retry(s)
    \/ Cancel
    \/ \E s \in SYMBOLS : Stop(s)
    \/ Shutdown

Init == IngestInit /\ EngineInit /\ AppInit

Spec == Init /\ [][Next]_vars

EngineNext == \E t \in TickInputs : RunEngine(t)

(* The standalone runner is started with one window for the whole run *)
EngineStart ==
    /\ IngestInit
    /\ AppInit
    /\ ticks = <<>>
    /\ window \in Windows
    /\ analytics = <<>>

SpecEngine == EngineStart /\ [][EngineNext]_vars

AppNext == \E a \in SeriesInputs, b \in SeriesInputs, w \in Windows : Rerun(a, b, w)

SpecApp == Init /\ [][AppNext]_vars

-----------------------------------------------------------------------------
(* Properties of the ingestion pipeline *)

RowsOf(s) == SelectSeq(committed, LAMBDA r : r.symbol = s)

(* A frame the claims call malformed: json.loads or normalize raises on it *)
Malformed(m) == Handle(m).do = "raise"

(* A valid trade frame: time, price and quantity present, the price finite *)
ValidTrade(m) == Handle(m).do = "save" /\ Handle(m).tick.price.kind = "num"

(* C1: every error or loss of the connection leads through the 5-unit      *)
(* backoff to a new connect: a connector leaves Streaming only into the    *)
(* backoff wait with the full delay ahead, enters Connecting only from an  *)
(* expired backoff, and never ends unless cancelled.                       *)
C1_BackoffCycle ==
    [][\A s \in SYMBOLS :
        /\ (~cancelled /\ pc[s] = "streaming" /\ pc'[s] # "streaming")
              => (pc'[s] = "backoff" /\ timer'[s] = BACKOFF)
        /\ (pc[s] # "connecting" /\ pc'[s] = "connecting")
              => (pc[s] = "backoff" /\ timer[s] = 0)
        /\ (pc'[s] = "stopped") => cancelled]_vars

(* C2: once the feed has sent a symbol N malformed frames followed by one  *)
(* valid trade frame and the connector has nothing left to read, exactly   *)
(* one tick of that symbol is in the store.                                *)
C2_OneTickAfterMalformed ==
    \A s \in SYMBOLS :
        LET h == hist[s]
        IN  ( /\ ~cancelled /\ ~dbFailed
              /\ Len(h) >= 2
              /\ inbox[s] = <<>>
              /\ ValidTrade(h[Len(h)])
              /\ \A i \in 1..(Len(h) - 1) : Malformed(h[i]) )
            => Len(RowsOf(s)) = 1

(* C3: every persisted row has ts, symbol, price and size populated, its   *)
(* price is a finite number, and it comes from a frame that is not         *)
(* malformed.                                                              *)
C3_RowsWellFormed ==
    \A i \in DOMAIN committed :
        LET r == committed[i]
        IN  /\ r.price.kind = "num"
            /\ r.size.kind # "null"
            /\ r.symbol \in SYMBOLS
            /\ ValidTrade(hist[r.symbol][r.src])

C5_OrderNoDuplicates ==
    /\ \A i \in DOMAIN committed : \A j \in DOMAIN committed :
          (i < j /\ committed[i].symbol = committed[j].symbol)
              => committed[i].src < committed[j].src
    /\ \A i \in DOMAIN committed :
          LET r == committed[i]
          IN  /\ r.src \in DOMAIN hist[r.symbol]
              /\ Handle(hist[r.symbol][r.src]).do = "save"
              /\ [r EXCEPT !.abandoned = FALSE]
                     = Row(r.symbol, Handle(hist[r.symbol][r.src]).tick, r.src)

(* C5 witness: two rows of one symbol, with a failed save, a backoff and a *)
(* reconnect between the two frames.                                       *)
C5_Witness ==
    \E s \in SYMBOLS :
        /\ Len(RowsOf(s)) = 2
        /\ RowsOf(s)[1].abandoned
        /\ RowsOf(s)[1].src = 1
        /\ RowsOf(s)[2].src = 2

(* C6: once the job is cancelled, a connector takes no further step of its *)
(* loop: its only step is to stop, from a read, from a connect and from    *)
(* the middle of the backoff wait alike.                                   *)
C6_CancelStops ==
    [][cancelled =>
        \A s \in SYMBOLS :
            \/ pc'[s] = "stopped"
            \/ (pc'[s] = pc[s] /\ timer'[s] = timer[s] /\ committed' = committed)]_vars

(* C6 witness: the job is cancelled while one connector is in the middle   *)
(* of its backoff wait, where it can stop at once, and another, which had  *)
(* persisted a tick, has already stopped.                                  *)
C6_Witness ==
    \E s \in SYMBOLS : \E t \in SYMBOLS \ {s} :
        /\ cancelled
        /\ pc[s] = "backoff" /\ timer[s] > 0 /\ timer[s] < BACKOFF
        /\ ENABLED Stop(s)
        /\ pc[t] = "stopped" /\ Len(RowsOf(t)) > 0

(* C7: no row is durable whose own save_tick call failed: a commit makes   *)
(* durable the row of its own call only.                                   *)
C7_NoForeignCommit ==
    \A i \in DOMAIN committed : ~committed[i].abandoned

-----------------------------------------------------------------------------
(* Properties of the analytics computations *)

(* C8: in the dashboard's compute_analytics, when there are aligned rows   *)
(* but fewer than the window, z-score and rolling correlation are 0.0 in   *)
(* every row.                                                              *)
C8_DegradedZeros ==
    (~live.none /\ Len(live.rows) < appWindow) =>
        \A i \in DOMAIN live.rows :
            live.rows[i].zscore = Zero /\ live.rows[i].rolling_corr = Zero

(* The table holds exactly one BTC tick and one ETH tick, both kept by     *)
(* dropna and in the same bucket.                                          *)
OneAlignedBucket ==
    /\ Len(ticks) = 2
    /\ \A i \in 1..2 : HasTsAndPrice(ticks[i])
    /\ {Lower(ticks[i].symbol) : i \in 1..2} = {"btcusdt", "ethusdt"}
    /\ Bucket(ticks[1].ts[1]) = Bucket(ticks[2].ts[1])

PriceOf(name) ==
    (CHOOSE t \in {ticks[i] : i \in DOMAIN ticks} : Lower(t.symbol) = name).price.v

(* The one row the scenario expects: spread = price_btc - price_eth and    *)
(* both statistics 0.0.                                                    *)
OneZeroRow ==
    /\ Len(analytics) = 1
    /\ analytics[1].price_btc = PriceOf("btcusdt")
    /\ analytics[1].price_eth = PriceOf("ethusdt")
    /\ analytics[1].spread = PriceOf("btcusdt") - PriceOf("ethusdt")
    /\ analytics[1].zscore = Zero
    /\ analytics[1].rolling_corr = Zero

(* C9 as stated: one aligned bucket and window = 1 give exactly one row    *)
(* with the spread, z-score 0.0 and correlation 0.0.                       *)
C9_OneRowWindowOne == (OneAlignedBucket /\ window = 1) => OneZeroRow

(* C9 as amended: one aligned bucket gives that one row when the window is *)
(* larger than 1; with window = 1 the window is full, z-score and          *)
(* correlation are NaN, and the result is empty.                           *)
C9_OneRowAmended ==
    OneAlignedBucket =>
        IF window = 1 THEN analytics = <<>> ELSE OneZeroRow

(* C9 witness: BTC at 100 and ETH at 50 in one bucket, window = 1, and the *)
(* engine has returned no row.                                             *)
C9_Witness ==
    /\ OneAlignedBucket /\ window = 1
    /\ PriceOf("btcusdt") = 100 /\ PriceOf("ethusdt") = 50
    /\ analytics = <<>>

(* The rows compute_analytics keeps, and the buckets a symbol has a tick in *)
Kept == {ticks[i] : i \in {j \in DOMAIN ticks : HasTsAndPrice(ticks[j])}}

TicksIn(name, b) == {t \in Kept : Lower(t.symbol) = name /\ Bucket(t.ts[1]) = b}

BucketsWith(name) == {Bucket(t.ts[1]) : t \in {u \in Kept : Lower(u.symbol) = name}}

SharedBuckets == BucketsWith("btcusdt") \cap BucketsWith("ethusdt")

(* p is the price of a latest tick of the symbol in bucket b *)
IsLastPrice(name, b, p) ==
    \E t \in TicksIn(name, b) :
        /\ t.price.v = p
        /\ \A u \in TicksIn(name, b) : u.ts[1] <= t.ts[1]

(* C10: every output row is for its own bucket, one in which both symbols  *)
(* have a tick; it carries the last price of each symbol in that bucket    *)
(* and their difference; there are no more rows than such buckets, and     *)
(* none when a symbol has no tick or no bucket is shared.                  *)
C10_AlignedRows ==
    /\ \A i \in DOMAIN analytics :
          LET r == analytics[i]
          IN  /\ r.time \in SharedBuckets
              /\ IsLastPrice("btcusdt", r.time, r.price_btc)
              /\ IsLastPrice("ethusdt", r.time, r.price_eth)
              /\ r.spread = r.price_btc - r.price_eth
    /\ \A i \in DOMAIN analytics : \A j \in DOMAIN analytics :
          i < j => analytics[i].time < analytics[j].time
    /\ Len(analytics) <= Cardinality(SharedBuckets)
    /\ SharedBuckets = {} => analytics = <<>>

(* C10 witness: a row for a bucket in which BTC has two ticks at different *)
(* times and prices, the earlier one stored after the later one.           *)
C10_Witness ==
    /\ Len(analytics) = 1
    /\ Len(ticks) = 3
    /\ ticks[1] = [ts |-> <<1>>, symbol |-> "BTCUSDT", price |-> Num(100)]
    /\ ticks[2] = [ts |-> <<0>>, symbol |-> "BTCUSDT", price |-> Num(50)]
    /\ Lower(ticks[3].symbol) = "ethusdt" /\ HasTsAndPrice(ticks[3])
    /\ analytics[1].price_btc = 100

====
